---- MODULE Spec2Model ----
(***************************************************************************)
(* A model of the coin-shuffle service: the in-memory Waiter               *)
(* (src/waiter), the JoinShuffleRoom endpoint over the persistent queue    *)
(* store (src/service/mod.rs, src/database/queues.rs) and the per-room     *)
(* actor RoomConnection (src/service/room.rs).                             *)
(*                                                                         *)
(* The specifications of the module:                                       *)
(*   SpecWaiter   concurrent Waiter::add_participant calls                 *)
(*   SpecJoin     concurrent Service::join_shuffle_room calls              *)
(*   Spec         one room: the RPC endpoints that feed it and its actor   *)
(*   SpecAuth     tokens and the join signature, one client                *)
(*   SpecRejoin   JoinShuffleRoom called repeatedly for one utxo id        *)
(*   SpecRegistry concurrent endpoint calls over the room registry         *)
(*   SpecMailbox  one room with several events waiting in its channel      *)
(*   SpecDeadline one room under the clock of its deadline                 *)
(*   SpecQueue    join_shuffle_room calls with pop_from_queue step by step *)
(***************************************************************************)
EXTENDS Integers, Sequences, FiniteSets, TLC

\* ------------------------------------------------------------------ bounds
\* Number of concurrent Waiter::add_participant calls (one utxo id each).
NumCallers == 4
\* Number of concurrent JoinShuffleRoom calls (one utxo id each).
NumJoiners == 4
\* Number of participants of the room (the length of Room.participants).
RoomSize == 3
\* Events sent to the room and not yet handled; one more in SpecMailbox.
MaxInFlight == 1
\* Repeated ConnectShuffleRoom calls (by a utxo id that has called before).
MaxReconnects == 1
\* Stream receivers dropped by clients.
MaxDrops == 1
\* Advances of the server clock.
MaxTicks == 1
\* Concurrent endpoint calls that look a room up in the registry.
NumCalls == 2
\* Successful JoinShuffleRoom calls of one utxo id.
MaxJoins == 4
\* Minutes the clock of the room's deadline advances.
MaxClock == 3
\* Concurrent JoinShuffleRoom calls over a queue row stored before them.
NumPushers == 2

\* ------------------------------------------------------- program constants
\* DEFAULT_ROUND_DEADLINE = Duration::from_secs(2 * 60), in minutes.
DEFAULT_ROUND_DEADLINE == 2
\* Waiter.min_participants, the constructor's parameter.
min_participants == 2
\* pub const MIN_ROOM_SIZE: usize = 4
MIN_ROOM_SIZE == 4
\* channel(10), the room's inbound event channel
ChannelCapacity == 10
\* generate_*_token: exp = now + 60 * 60 * 24
TokenLifetime == 86400
\* Validation::default(): exp is checked with jsonwebtoken's default leeway
Leeway == 60

VARIABLES
    \* --- Waiter (src/waiter) ---
    queues,     \* QueuesStorage.queues[(token, amount)]: Vec<U256>, one key
    wpc,        \* position of each add_participant call
    wres,       \* what each call returned: [some |-> BOOLEAN, batch |-> Seq]
    wsize,      \* history: the queue's size right after the call's own push
    pushed,     \* history: ids in insertion order
    batches,    \* history: batches in the order pop returned them
    \* --- JoinShuffleRoom (src/service/mod.rs, src/database/queues.rs) ---
    dbQueue,    \* the queues row of the key: [exists, participants]
    jpc,        \* position of each join_shuffle_room call
    jrow,       \* the row push_to_queue read (local to the call)
    jlen,       \* the queue_len the call read (local to the call)
    rooms,      \* rooms created, in creation order: each a participants list
    joinOrder,  \* history: ids in the order their push_to_queue wrote
    \* --- one room: registry, RPC endpoints, RoomConnection ---
    registry,   \* Service.rooms holds a sender for the room id
    actor,      \* "none", "running", or why run() ended: "deadline", "error", "panic"
    events,     \* the room's inbound channel (RoomEvents, FIFO)
    participant_streams, \* RoomConnection.participant_streams: its keys
    alive,      \* utxo ids whose current stream still has its receiver
    room_size,  \* RoomConnection.room_size
    rsa_pubkey, \* storage: Participant.rsa_pubkey of each participant
    current_round, \* storage: Room.current_round
    outputs,    \* storage: the decoded outputs passed last
    signatures, \* storage: utxo ids whose signature is recorded
    transfers,  \* history: the chain connector's transfer calls
    received,   \* history: the events sent into each participant's stream
    connecting, \* utxo ids that have called ConnectShuffleRoom
    reconnects, \* number of repeated ConnectShuffleRoom calls so far
    drops,      \* number of stream receivers dropped so far
    nHandled,   \* history: number of events handle_event has returned from
    lastHandled, \* history: the last event handled and how it ended
    roundSenders, \* history: senders of the ShuffleRound events handled Ok
    distKeys,   \* history: rsa_pubkey as distribute_public_keys read it
    \* --- tokens and the join signature (src/service/auth.rs) ---
    now,        \* the server clock, in seconds
    ticks,      \* number of clock advances so far
    shuffle_token, \* the ShuffleAccess token the client holds
    room_token, \* the RoomAccess token the client holds
    participant_rows, \* storage: utxo ids that have a participants row
    lastRpc,    \* history: the last call of an endpoint and its response
    \* --- the room registry (Service.rooms) and the calls that use it ---
    storage_rooms, \* storage: ids of the rooms that have a row
    storage_participant, \* storage: the client's participants row
    rooms_lock, \* the call that holds the mutex of Service.rooms, 0 when free
    service_rooms, \* Service.rooms: room id -> sender (the channel's number)
    spawned,    \* the actors spawned, in order: [room_id, channel, running]
    sent,       \* history: the events sent into the channels, in order
    call,       \* each endpoint call: [pc, endpoint, room_id, sender, status]
    \* --- the callers of the room endpoints ---
    depth,      \* how many events the callers let wait in the room's channel
    \* --- the room's deadline ---
    clock,      \* tokio's Instant::now(), in minutes
    deadline    \* RoomConnection.deadline: the instant of the Interval's next tick

waiterVars == <<queues, wpc, wres, wsize, pushed, batches>>
joinVars == <<dbQueue, jpc, jrow, jlen, rooms, joinOrder>>
roomVars == <<registry, actor, events, participant_streams, alive, room_size,
              rsa_pubkey, current_round, outputs, signatures, transfers,
              received, connecting, reconnects, drops, nHandled, lastHandled,
              roundSenders, distKeys>>
authVars == <<now, ticks, shuffle_token, room_token, participant_rows, lastRpc>>
registryVars == <<storage_rooms, storage_participant, rooms_lock,
                  service_rooms, spawned, sent, call>>
timerVars == <<clock, deadline>>
vars == <<waiterVars, joinVars, roomVars, authVars, registryVars, depth,
         timerVars>>

Callers == 1..NumCallers
Joiners == 1..NumJoiners

NoneResult == [some |-> FALSE, batch |-> <<>>]
SomeResult(b) == [some |-> TRUE, batch |-> b]

Range(s) == {s[i] : i \in 1..Len(s)}

\* ================================================================= Waiter
\* QueuesStorage::push: lock, entry().or_insert_with(Vec::new), push.
QueuesStorage_push(q, utxo_id) == Append(q, utxo_id)

\* QueuesStorage::len: lock, the queue's length (0 when the key is absent).
QueuesStorage_len(q) == Len(q)

\* QueuesStorage::pop: lock, clone the whole queue and clear it.
QueuesStorage_pop(q) == [participants |-> q, left |-> <<>>]

\* Waiter::is_filled: len >= min_participants.
is_filled(q) == QueuesStorage_len(q) >= min_participants

\* add_participant, first await: self.queue.push(token, amount, participant).
\* The caller c brings the utxo id c.
WaiterPush(c) ==
    /\ wpc[c] = "start"
    /\ queues' = QueuesStorage_push(queues, c)
    /\ wsize' = [wsize EXCEPT ![c] = Len(queues')]
    /\ pushed' = Append(pushed, c)
    /\ wpc' = [wpc EXCEPT ![c] = "pushed"]
    /\ UNCHANGED <<wres, batches>>
    /\ UNCHANGED <<joinVars, roomVars, authVars, registryVars, depth, timerVars>>

\* add_participant, second await: self.is_filled(token, amount); a queue
\* that is not filled makes the call return None.
WaiterIsFilled(c) ==
    /\ wpc[c] = "pushed"
    /\ IF is_filled(queues)
       THEN /\ wpc' = [wpc EXCEPT ![c] = "filled"]
            /\ UNCHANGED wres
       ELSE /\ wpc' = [wpc EXCEPT ![c] = "done"]
            /\ wres' = [wres EXCEPT ![c] = NoneResult]
    /\ UNCHANGED <<queues, wsize, pushed, batches>>
    /\ UNCHANGED <<joinVars, roomVars, authVars, registryVars, depth, timerVars>>

\* add_participant, third await: Some(self.queue.pop(token, amount)).
WaiterPop(c) ==
    /\ wpc[c] = "filled"
    /\ LET r == QueuesStorage_pop(queues) IN
        /\ queues' = r.left
        /\ wres' = [wres EXCEPT ![c] = SomeResult(r.participants)]
        /\ batches' = Append(batches, r.participants)
    /\ wpc' = [wpc EXCEPT ![c] = "done"]
    /\ UNCHANGED <<wsize, pushed>>
    /\ UNCHANGED <<joinVars, roomVars, authVars, registryVars, depth, timerVars>>

WaiterInit ==
    /\ queues = <<>>
    /\ wpc = [c \in Callers |-> "start"]
    /\ wres = [c \in Callers |-> NoneResult]
    /\ wsize = [c \in Callers |-> 0]
    /\ pushed = <<>>
    /\ batches = <<>>

\* ======================================================== JoinShuffleRoom
AbsentRow == [exists |-> FALSE, participants |-> <<>>]
Row(ps) == [exists |-> TRUE, participants |-> ps]

\* Database::get_queue: SELECT ... fetch_optional.
get_queue(db) == db

\* Database::update_queue: UPDATE queues SET participants = $1 WHERE key;
\* no row, nothing updated.
update_queue(db, ps) == IF db.exists THEN Row(ps) ELSE db

\* Database::insert_queue: INSERT INTO queues.
insert_queue(db, ps) == Row(ps)

\* Storage::queue_len: 0 when there is no row.
queue_len(db) == IF db.exists THEN Len(db.participants) ELSE 0

\* Storage::pop_from_queue(number): drain(..number) of the row read, the
\* rest written back.
pop_from_queue(db, number) ==
    [poped_participants |-> SubSeq(db.participants, 1, number),
     db |-> Row(SubSeq(db.participants, number + 1, Len(db.participants)))]

\* join_shuffle_room up to the call of add_participant: the utxo is looked
\* up and the join signature verified.
JoinStart(j) ==
    /\ jpc[j] = "start"
    /\ jpc' = [jpc EXCEPT ![j] = "push_read"]
    /\ UNCHANGED <<dbQueue, jrow, jlen, rooms, joinOrder>>
    /\ UNCHANGED <<waiterVars, roomVars, authVars, registryVars, depth, timerVars>>

\* push_to_queue, first await: let row = self.get_queue(token, amount).
PushToQueueRead(j) ==
    /\ jpc[j] = "push_read"
    /\ jrow' = [jrow EXCEPT ![j] = get_queue(dbQueue)]
    /\ jpc' = [jpc EXCEPT ![j] = "push_write"]
    /\ UNCHANGED <<dbQueue, jlen, rooms, joinOrder>>
    /\ UNCHANGED <<waiterVars, roomVars, authVars, registryVars, depth, timerVars>>

\* push_to_queue, second await: the row read is extended and written back
\* (update_queue), or a first row is inserted (insert_queue).
PushToQueueWrite(j) ==
    /\ jpc[j] = "push_write"
    /\ \/ /\ jrow[j].exists
          /\ dbQueue' = update_queue(dbQueue, Append(jrow[j].participants, j))
       \/ /\ ~jrow[j].exists
          /\ ~dbQueue.exists
          /\ dbQueue' = insert_queue(dbQueue, <<j>>)
    /\ joinOrder' = Append(joinOrder, j)
    /\ jpc' = [jpc EXCEPT ![j] = "queue_len"]
    /\ UNCHANGED <<jrow, jlen, rooms>>
    /\ UNCHANGED <<waiterVars, roomVars, authVars, registryVars, depth, timerVars>>

\* push_to_queue's INSERT meets a row that another call inserted meanwhile:
\* the statement fails, add_participant returns Err and the endpoint answers
\* Status::internal.
PushToQueueConflict(j) ==
    /\ jpc[j] = "push_write"
    /\ ~jrow[j].exists
    /\ dbQueue.exists
    /\ jpc' = [jpc EXCEPT ![j] = "failed"]
    /\ UNCHANGED <<dbQueue, jrow, jlen, rooms, joinOrder>>
    /\ UNCHANGED <<waiterVars, roomVars, authVars, registryVars, depth, timerVars>>

\* join_shuffle_room: let queue_length = self.storage.queue_len(..).
JoinQueueLen(j) ==
    /\ jpc[j] = "queue_len"
    /\ jlen' = [jlen EXCEPT ![j] = queue_len(dbQueue)]
    /\ jpc' = [jpc EXCEPT ![j] = IF queue_len(dbQueue) >= MIN_ROOM_SIZE
                                  THEN "create_rooms" ELSE "token"]
    /\ UNCHANGED <<dbQueue, jrow, rooms, joinOrder>>
    /\ UNCHANGED <<waiterVars, roomVars, authVars, registryVars, depth, timerVars>>

\* Core::create_rooms: while the queue holds MIN_ROOM_SIZE ids the first
\* MIN_ROOM_SIZE are drained and form a room; a shorter queue forms none.
create_rooms(db) ==
    IF queue_len(db) >= MIN_ROOM_SIZE
    THEN LET r == pop_from_queue(db, MIN_ROOM_SIZE) IN
         [db |-> r.db, rooms |-> <<r.poped_participants>>]
    ELSE [db |-> db, rooms |-> <<>>]

\* join_shuffle_room: if queue_length >= MIN_ROOM_SIZE { create_rooms }.
JoinCreateRooms(j) ==
    /\ jpc[j] = "create_rooms"
    /\ LET r == create_rooms(dbQueue) IN
        /\ dbQueue' = r.db
        /\ rooms' = rooms \o r.rooms
    /\ jpc' = [jpc EXCEPT ![j] = "token"]
    /\ UNCHANGED <<jrow, jlen, joinOrder>>
    /\ UNCHANGED <<waiterVars, roomVars, authVars, registryVars, depth, timerVars>>

\* create_rooms reaching pop_from_queue, first await: let row =
\* self.get_queue(token, amount); no room is formed from a queue shorter
\* than MIN_ROOM_SIZE.
PopFromQueueRead(j) ==
    /\ jpc[j] = "create_rooms"
    /\ jrow' = [jrow EXCEPT ![j] = get_queue(dbQueue)]
    /\ jpc' = [jpc EXCEPT ![j] = IF queue_len(dbQueue) >= MIN_ROOM_SIZE
                                  THEN "pop_write" ELSE "token"]
    /\ UNCHANGED <<dbQueue, jlen, rooms, joinOrder>>
    /\ UNCHANGED <<waiterVars, roomVars, authVars, registryVars, depth, timerVars>>

\* pop_from_queue, second await: participants.drain(..number) of the row
\* read, UPDATE queues SET participants = the rest; the ids drained are
\* returned and form the room.
PopFromQueueWrite(j) ==
    /\ jpc[j] = "pop_write"
    /\ LET r == pop_from_queue(jrow[j], MIN_ROOM_SIZE) IN
        /\ dbQueue' = update_queue(dbQueue, r.db.participants)
        /\ rooms' = Append(rooms, r.poped_participants)
    /\ jpc' = [jpc EXCEPT ![j] = "token"]
    /\ UNCHANGED <<jrow, jlen, joinOrder>>
    /\ UNCHANGED <<waiterVars, roomVars, authVars, registryVars, depth, timerVars>>

\* join_shuffle_room: Ok(JoinShuffleRoomResponse { generate_shuffle_token }).
JoinRespond(j) ==
    /\ jpc[j] = "token"
    /\ jpc' = [jpc EXCEPT ![j] = "done"]
    /\ UNCHANGED <<dbQueue, jrow, jlen, rooms, joinOrder>>
    /\ UNCHANGED <<waiterVars, roomVars, authVars, registryVars, depth, timerVars>>

JoinInit ==
    /\ dbQueue = AbsentRow
    /\ jpc = [j \in Joiners |-> "start"]
    /\ jrow = [j \in Joiners |-> AbsentRow]
    /\ jlen = [j \in Joiners |-> 0]
    /\ rooms = <<>>
    /\ joinOrder = <<>>

\* ================================================================ one room
\* Participants of the room, in join order (storage: Room.participants);
\* the utxo id of the i-th is Utxo(i).
Utxo(i) == i + i + i
participants == [i \in 1..RoomSize |-> Utxo(i)]
UtxoIds == Range(participants)

\* Position of a utxo id in Room.participants (1-based).
IndexOf(u) == CHOOSE i \in 1..RoomSize : participants[i] = u

\* The RSA public key a client connects with: every participant has its own.
PublicKeyOf(u) == <<"rsa", u>>

\* The decoded output list a client passes in its round: every participant
\* has its own, of two outputs.
OutputsOf(u) == << <<"out", u, "a">>, <<"out", u, "b">> >>

NoKey == "none"
NoEvent == [type |-> "none", utxo_id |-> 0, ok |-> TRUE, refused |-> FALSE]

\* RoomEvents
AddParticipant(u, k) ==
    [type |-> "AddParticipant", utxo_id |-> u, public_key |-> k, outputs |-> <<>>]
ShuffleRound(u, o) ==
    [type |-> "ShuffleRound", utxo_id |-> u, public_key |-> NoKey, outputs |-> o]
SignedOutput(u) ==
    [type |-> "SignedOutput", utxo_id |-> u, public_key |-> NoKey, outputs |-> <<>>]

\* ---------------------------------------------------------------- tokens
\* The server's secret (TokensGenerator.secret_key) and another party's.
ServerSecret == "secret_key"
ForeignSecret == "foreign_key"

\* The client's utxo on chain, and an id the contract does not know.
ClientUtxo == participants[1]
UnknownUtxo == 0
Owner == "owner"
Mallory == "mallory"
RoomId == "room_id"

\* struct ShuffleAccessClaim { token, amount, utxo_id, exp }, serialised.
ShuffleAccessClaim(token, amount, utxo_id, exp) ==
    [token |-> token, amount |-> amount, utxo_id |-> utxo_id, exp |-> exp]
ShuffleAccessClaimFields == {"token", "amount", "utxo_id", "exp"}

\* struct RoomAccessClaim { utxo_id, room_id, exp }, serialised.
RoomAccessClaim(utxo_id, room_id, exp) ==
    [utxo_id |-> utxo_id, room_id |-> room_id, exp |-> exp]
RoomAccessClaimFields == {"utxo_id", "room_id", "exp"}

\* jsonwebtoken::encode(&Header::default(), &claim, &EncodingKey::from_secret):
\* the claim's fields as the payload and an HMAC under the secret.
jsonwebtoken_encode(claim, secret) == [claims |-> claim, mac |-> secret]

NoJwt == [claims |-> [none |-> 0], mac |-> "none"]
DecodeError == [ok |-> FALSE, claims |-> [none |-> 0]]

\* jsonwebtoken::decode::<T>(token, &DecodingKey::from_secret, &Validation::
\* default()): the HMAC is checked, then exp (required, with the default
\* leeway), then the payload is deserialised into T: every field of T must
\* be there, other fields are dropped.
jsonwebtoken_decode(jwt, fields, secret, t) ==
    IF jwt.mac # secret THEN DecodeError
    ELSE IF "exp" \notin DOMAIN jwt.claims THEN DecodeError
    ELSE IF jwt.claims.exp < t - Leeway THEN DecodeError
    ELSE IF ~(fields \subseteq DOMAIN jwt.claims) THEN DecodeError
    ELSE [ok |-> TRUE, claims |-> [f \in fields |-> jwt.claims[f]]]

\* generate_shuffle_token with amount and utxo_id (both U256) exchanged.
generate_shuffle_token_swapped(token, amount, utxo_id, t) ==
    jsonwebtoken_encode(
        ShuffleAccessClaim(token, utxo_id, amount, t + TokenLifetime),
        ServerSecret)

\* TokensGenerator::generate_shuffle_token, called at time t.
generate_shuffle_token(token, amount, utxo_id, t) ==
    jsonwebtoken_encode(
        ShuffleAccessClaim(token, amount, utxo_id, t + TokenLifetime),
        ServerSecret)

\* TokensGenerator::generate_room_token, called at time t.
generate_room_token(room_id, utxo_id, t) ==
    jsonwebtoken_encode(RoomAccessClaim(utxo_id, room_id, t + TokenLifetime),
                        ServerSecret)

\* The "authorization" metadata of a request: absent, or a value made of a
\* prefix and the rest.
NoHeader == [present |-> FALSE, prefix |-> "", jwt |-> NoJwt]
Header(prefix, jwt) == [present |-> TRUE, prefix |-> prefix, jwt |-> jwt]

\* TokensGenerator::decode_shuffle_token: metadata().get("authorization"),
\* strip_prefix("Bearer "), decode::<ShuffleAccessClaim>.
decode_shuffle_token(h, t) ==
    IF ~h.present THEN DecodeError
    ELSE IF h.prefix # "Bearer " THEN DecodeError
    ELSE jsonwebtoken_decode(h.jwt, ShuffleAccessClaimFields, ServerSecret, t)

\* decode_room_token deserialising a ShuffleAccessClaim.
decode_room_token_as_shuffle(h, t) == decode_shuffle_token(h, t)

\* TokensGenerator::decode_room_token: the same with RoomAccessClaim.
decode_room_token(h, t) ==
    IF ~h.present THEN DecodeError
    ELSE IF h.prefix # "Bearer " THEN DecodeError
    ELSE jsonwebtoken_decode(h.jwt, RoomAccessClaimFields, ServerSecret, t)

\* ShuffleEvent bodies sent into the participants' streams.
ShuffleInfo(keys, token) ==
    [type |-> "ShuffleInfo", public_keys_list |-> keys,
     shuffle_access_token |-> token, outputs |-> <<>>]
EncodedOutputs(o) ==
    [type |-> "EncodedOutputs", public_keys_list |-> <<>>, shuffle_access_token |-> NoJwt, outputs |-> o]
TxSigningOutputs(o) ==
    [type |-> "TxSigningOutputs", public_keys_list |-> <<>>, shuffle_access_token |-> NoJwt, outputs |-> o]
ShuffleTxHash ==
    [type |-> "ShuffleTxHash", public_keys_list |-> <<>>, shuffle_access_token |-> NoJwt, outputs |-> <<>>]

Got(u, type) == \E i \in 1..Len(received[u]) : received[u][i].type = type

\* A client holds a RoomAccess token once a ShuffleInfo reached its stream
\* (generate_room_token is called nowhere else).
HasRoomToken(u) == Got(u, "ShuffleInfo")

Reverse(s) == [i \in 1..Len(s) |-> s[Len(s) + 1 - i]]

\* ------------------------------------------------------------ RPC endpoints
\* The value of deadline while no RoomConnection has been constructed.
NoDeadline == 0

\* RoomConnection::new at the instant t: deadline: interval_at(Instant::now()
\* + DEFAULT_ROUND_DEADLINE, DEFAULT_ROUND_DEADLINE), the instant of the
\* first tick.
RoomConnection_new(t) == t + DEFAULT_ROUND_DEADLINE

\* Service::get_room_stream: a vacant entry spawns the actor and inserts its
\* sender; the result is the actor the sender leads to.
get_room_stream == IF registry THEN actor ELSE "running"

\* A send into the room's channel waits while the channel is full.
ChannelHasRoom == Len(events) < ChannelCapacity /\ Len(events) < depth

\* Service::connect_shuffle_room with a well-formed RSA key: the event
\* AddParticipant is sent to the room.
ConnectShuffleRoom(u) ==
    /\ get_room_stream = "running"
    /\ ChannelHasRoom
    /\ u \in connecting => reconnects < MaxReconnects
    /\ registry' = TRUE
    /\ deadline' = IF registry THEN deadline ELSE RoomConnection_new(clock)
    /\ actor' = "running"
    /\ events' = Append(events, AddParticipant(u, PublicKeyOf(u)))
    /\ reconnects' = IF u \in connecting THEN reconnects + 1 ELSE reconnects
    /\ connecting' = connecting \cup {u}
    /\ UNCHANGED <<participant_streams, alive, room_size, rsa_pubkey,
                   current_round, outputs, signatures, transfers, received,
                   drops, nHandled, lastHandled, roundSenders, distKeys>>
    /\ UNCHANGED <<waiterVars, joinVars, authVars, registryVars, depth, clock>>

\* Service::connect_shuffle_room with the public key missing or malformed:
\* get_room_stream has run before the key is looked at, nothing is sent.
ConnectInvalidKey(u) ==
    /\ ~registry
    /\ registry' = TRUE
    /\ deadline' = IF registry THEN deadline ELSE RoomConnection_new(clock)
    /\ actor' = get_room_stream
    /\ UNCHANGED <<events, participant_streams, alive, room_size, rsa_pubkey,
                   current_round, outputs, signatures, transfers, received,
                   connecting, reconnects, drops, nHandled, lastHandled,
                   roundSenders, distKeys>>
    /\ UNCHANGED <<waiterVars, joinVars, authVars, registryVars, depth, clock>>

\* Service::shuffle_round, called with the caller's RoomAccess token.
ShuffleRoundRpc(u) ==
    /\ HasRoomToken(u)
    /\ get_room_stream = "running"
    /\ ChannelHasRoom
    /\ events' = Append(events, ShuffleRound(u, OutputsOf(u)))
    /\ UNCHANGED <<registry, actor, participant_streams, alive, room_size,
                   rsa_pubkey, current_round, outputs, signatures, transfers,
                   received, connecting, reconnects, drops, nHandled,
                   lastHandled, roundSenders, distKeys>>
    /\ UNCHANGED <<waiterVars, joinVars, authVars, registryVars, depth, timerVars>>

\* Service::sign_shuffle_tx, called with the caller's RoomAccess token.
SignShuffleTxRpc(u) ==
    /\ HasRoomToken(u)
    /\ get_room_stream = "running"
    /\ ChannelHasRoom
    /\ events' = Append(events, SignedOutput(u))
    /\ UNCHANGED <<registry, actor, participant_streams, alive, room_size,
                   rsa_pubkey, current_round, outputs, signatures, transfers,
                   received, connecting, reconnects, drops, nHandled,
                   lastHandled, roundSenders, distKeys>>
    /\ UNCHANGED <<waiterVars, joinVars, authVars, registryVars, depth, timerVars>>

\* A client drops the receiver of its stream.
DropReceiver(u) ==
    /\ actor = "running"
    /\ u \in participant_streams \cap alive
    /\ drops < MaxDrops
    /\ alive' = alive \ {u}
    /\ drops' = drops + 1
    /\ UNCHANGED <<registry, actor, events, participant_streams, room_size,
                   rsa_pubkey, current_round, outputs, signatures, transfers,
                   received, connecting, reconnects, nHandled, lastHandled,
                   roundSenders, distKeys>>
    /\ UNCHANGED <<waiterVars, joinVars, authVars, registryVars, depth, timerVars>>

\* ------------------------------------------------------------- the core
\* Core::participant_keys(utxo_id): the keys of the participants after
\* utxo_id in Room.participants, in that order; an error when one of them
\* has no key yet.
participant_keys_ok(keys, i) ==
    \A j \in (i + 1)..RoomSize : keys[participants[j]] # NoKey
participant_keys(keys, i) ==
    [j \in 1..(RoomSize - i) |-> keys[participants[i + j]]]

\* Core::pass_decoded_outputs(utxo_id, outputs): Ok for the participant
\* whose turn it is, participants[current_round]; any other sender is an
\* error.
pass_decoded_outputs_ok(round, u) ==
    /\ round < RoomSize
    /\ participants[round + 1] = u

\* update_room_round writing the room back as it was read.
update_room_round_stale(old, round) == old

\* update_participant_key with an UPDATE that leaves out WHERE utxo_id.
update_participant_key_all(keys, u, key) == [v \in DOMAIN keys |-> key]

\* Storage::update_participant_key(participant, key), called by
\* Core::add_participant_key: Participant { rsa_pubkey: Some(key), ..participant }.
update_participant_key(keys, u, key) == [keys EXCEPT ![u] = key]

\* Storage::update_room_round(id, round): Room { current_round: round, ..room }.
update_room_round(old, round) == round

\* pass_outputs_signature taking the signature of a utxo id again.
pass_outputs_signature_ok_again(round, sigs, u) ==
    /\ round = RoomSize
    /\ u \in UtxoIds

\* Core::pass_outputs_signature(utxo_id, signature): Ok only once the last
\* decoding round is done, and once per utxo id.
pass_outputs_signature_ok(round, sigs, u) ==
    /\ round = RoomSize
    /\ u \in UtxoIds
    /\ u \notin sigs

\* Core::is_signature_passed(room_id): every participant has signed.
is_signature_passed(sigs) == sigs = UtxoIds

\* ------------------------------------------------------- RoomConnection
\* A loop over room.participants stops at the least index whose step fails
\* (B: the indexes that would fail); RoomSize + 1 when none does.
FirstBad(B) ==
    IF B = {} THEN RoomSize + 1 ELSE CHOOSE i \in B : \A j \in B : i <= j

\* self.participant_streams[utxo_id].send(..): indexing a missing key panics,
\* a send to a dropped receiver is an error.
SendOutcome(u, streams, live) ==
    IF u \notin streams THEN "panic" ELSE IF u \notin live THEN "error" ELSE "ok"

\* distribute_public_keys without the reverse().
public_keys_list_raw_kept(public_keys_list) == public_keys_list

\* distribute_public_keys: public_keys_list_raw.reverse().
public_keys_list_raw(public_keys_list) == Reverse(public_keys_list)

\* distribute_public_keys minting every token for room.participants[0].
distribute_public_keys_first_token(keys, streams, live) ==
    LET bad(i) == \/ ~participant_keys_ok(keys, i)
                  \/ SendOutcome(participants[i], streams, live) # "ok"
        f == FirstBad({i \in 1..RoomSize : bad(i)})
    IN [outcome |-> IF f > RoomSize THEN "ok"
                    ELSE IF ~participant_keys_ok(keys, f) THEN "error"
                    ELSE SendOutcome(participants[f], streams, live),
        sent |-> [u \in UtxoIds |->
                    IF IndexOf(u) < f
                    THEN <<ShuffleInfo(
                             public_keys_list_raw(
                                 participant_keys(keys, IndexOf(u))),
                             generate_room_token(RoomId, participants[1], now))>>
                    ELSE <<>>]]

\* distribute_public_keys: for each participant in room order, its key list
\* is fetched, reversed and sent as ShuffleInfo with a fresh room token,
\* generate_room_token(self.room_id, *utxo_id).
distribute_public_keys(keys, streams, live) ==
    LET bad(i) == \/ ~participant_keys_ok(keys, i)
                  \/ SendOutcome(participants[i], streams, live) # "ok"
        f == FirstBad({i \in 1..RoomSize : bad(i)})
    IN [outcome |-> IF f > RoomSize THEN "ok"
                    ELSE IF ~participant_keys_ok(keys, f) THEN "error"
                    ELSE SendOutcome(participants[f], streams, live),
        sent |-> [u \in UtxoIds |->
                    IF IndexOf(u) < f
                    THEN <<ShuffleInfo(
                             public_keys_list_raw(
                                 participant_keys(keys, IndexOf(u))),
                             generate_room_token(RoomId, u, now))>>
                    ELSE <<>>]]

\* distribute_outputs returning after the first participant.
distribute_outputs_first(outs, streams, live) ==
    [outcome |-> SendOutcome(participants[1], streams, live),
     sent |-> [u \in UtxoIds |->
                 IF IndexOf(u) = 1 /\ SendOutcome(u, streams, live) = "ok"
                 THEN <<TxSigningOutputs(outs)>> ELSE <<>>]]

\* distribute_outputs: TxSigningOutputs to each participant in room order.
distribute_outputs(outs, streams, live) ==
    LET bad(i) == SendOutcome(participants[i], streams, live) # "ok"
        f == FirstBad({i \in 1..RoomSize : bad(i)})
    IN [outcome |-> IF f > RoomSize THEN "ok"
                    ELSE SendOutcome(participants[f], streams, live),
        sent |-> [u \in UtxoIds |->
                    IF IndexOf(u) < f THEN <<TxSigningOutputs(outs)>> ELSE <<>>]]

\* send_encoded_outputs sending to every stream.
send_encoded_outputs_all(u, outs, streams, live) ==
    [outcome |-> SendOutcome(u, streams, live),
     sent |-> [v \in UtxoIds |->
                 IF SendOutcome(u, streams, live) = "ok"
                 THEN <<EncodedOutputs(outs)>> ELSE <<>>]]

\* send_encoded_outputs(participant, outputs).
send_encoded_outputs(u, outs, streams, live) ==
    [outcome |-> SendOutcome(u, streams, live),
     sent |-> [v \in UtxoIds |->
                 IF v = u /\ SendOutcome(u, streams, live) = "ok"
                 THEN <<EncodedOutputs(outs)>> ELSE <<>>]]

NothingSent == [u \in UtxoIds |-> <<>>]

\* event_add_participant: if self.participant_streams.len() == self.room_size.
KeysAreDistributed(streams, size) == Cardinality(streams) = size

\* event_signed_output sending the transaction whatever is_signature_passed.
TransactionIsSent_always(passed) == TRUE

\* event_signed_output: if is_signature_passed { send_transaction ... }.
TransactionIsSent(passed) == passed

\* event_signed_output dropping the error of pass_outputs_signature.
event_signed_output_unchecked(passed, complete, chain_ok, all_sent) ==
    IF ~complete THEN "ok"
    ELSE IF ~chain_ok THEN "panic"
    ELSE IF all_sent THEN "ok" ELSE "error"

\* event_signed_output: how the handler ends. pass_outputs_signature(..)?
\* returns its error; with the signatures complete, a failed transfer
\* panics in unwrap() and a failed send of the hash is an error.
event_signed_output(passed, complete, chain_ok, all_sent) ==
    IF ~passed THEN "error"
    ELSE IF ~complete THEN "ok"
    ELSE IF ~chain_ok THEN "panic"
    ELSE IF all_sent THEN "ok" ELSE "error"

\* run() with a deadline that every handled event pushes back.
select_events_arm_reset(next, t) == t + DEFAULT_ROUND_DEADLINE

\* run(): the select! that takes the events arm drops its tick() future;
\* self.deadline keeps the instant of its next tick (no reset, and no
\* handler touches the field).
select_events_arm(next, t) == next

\* run() leaving the event handled in the channel.
RunAfter_peek(ev, outcome, refused) ==
    /\ actor' = IF outcome = "ok" THEN "running" ELSE outcome
    /\ events' = IF outcome = "ok" THEN events ELSE <<>>
    /\ nHandled' = nHandled + 1
    /\ lastHandled' = [type |-> ev.type, utxo_id |-> ev.utxo_id,
                       ok |-> outcome = "ok", refused |-> refused]
    /\ deadline' = select_events_arm(deadline, clock)

\* run(): what the loop does with handle_event's result. Ok: the loop goes
\* on. Err: return. A panic unwinds the task. The RoomConnection is dropped
\* with the task, and its receiver with it. refused: the core returned Err
\* for the event.
RunAfter(ev, outcome, refused) ==
    /\ actor' = IF outcome = "ok" THEN "running" ELSE outcome
    /\ events' = IF outcome = "ok" THEN Tail(events) ELSE <<>>
    /\ nHandled' = nHandled + 1
    /\ lastHandled' = [type |-> ev.type, utxo_id |-> ev.utxo_id,
                       ok |-> outcome = "ok", refused |-> refused]
    /\ deadline' = select_events_arm(deadline, clock)

\* run(): _ = self.deadline.tick() => return. The instant of the tick is
\* left open here; DeadlineElapses is the tick under the clock.
DeadlineTick ==
    /\ actor = "running"
    /\ actor' = "deadline"
    /\ events' = <<>>
    /\ UNCHANGED <<registry, participant_streams, alive, room_size,
                   rsa_pubkey, current_round, outputs, signatures, transfers,
                   received, connecting, reconnects, drops, nHandled,
                   lastHandled, roundSenders, distKeys>>
    /\ UNCHANGED <<waiterVars, joinVars, authVars, registryVars, depth, timerVars>>

\* run() receives AddParticipant: event_add_participant.
HandleAddParticipant ==
    /\ actor = "running"
    /\ events # <<>>
    /\ Head(events).type = "AddParticipant"
    /\ LET ev == Head(events)
           u == ev.utxo_id
           streams == participant_streams \cup {u}
           live == alive \cup {u}
           keys == update_participant_key(rsa_pubkey, u, ev.public_key)
           start == KeysAreDistributed(streams, room_size)
           d == distribute_public_keys(keys, streams, live)
           e == send_encoded_outputs(participants[1], <<>>, streams, live)
           outcome == IF ~start THEN "ok"
                      ELSE IF d.outcome # "ok" THEN d.outcome ELSE e.outcome
       IN
        /\ participant_streams' = streams
        /\ alive' = live
        /\ rsa_pubkey' = keys
        /\ received' = [v \in UtxoIds |->
                          received[v]
                          \o (IF start THEN d.sent[v] ELSE <<>>)
                          \o (IF start /\ d.outcome = "ok" THEN e.sent[v] ELSE <<>>)]
        /\ distKeys' = IF start THEN <<keys>> ELSE distKeys
        /\ room_size' = IF outcome = "ok" THEN room_size + 1 ELSE room_size
        /\ RunAfter(ev, outcome, FALSE)
    /\ UNCHANGED <<registry, current_round, outputs, signatures, transfers,
                   connecting, reconnects, drops, roundSenders>>
    /\ UNCHANGED <<waiterVars, joinVars, authVars, registryVars, depth, clock>>

\* run() receives ShuffleRound: event_shuffle_round.
HandleShuffleRound ==
    /\ actor = "running"
    /\ events # <<>>
    /\ Head(events).type = "ShuffleRound"
    /\ LET ev == Head(events)
           u == ev.utxo_id
           passed == pass_decoded_outputs_ok(current_round, u)
           round == current_round + 1
           d == distribute_outputs(ev.outputs, participant_streams, alive)
           e == IF round + 1 > RoomSize
                THEN [outcome |-> "panic", sent |-> NothingSent]
                ELSE send_encoded_outputs(participants[round + 1], ev.outputs,
                                          participant_streams, alive)
           last == round = Cardinality(participant_streams)
           outcome == IF ~passed THEN "error"
                      ELSE IF last THEN d.outcome ELSE e.outcome
       IN
        /\ current_round' = IF passed
                            THEN update_room_round(current_round, round)
                            ELSE current_round
        /\ outputs' = IF passed THEN ev.outputs ELSE outputs
        /\ received' = [v \in UtxoIds |->
                          received[v]
                          \o (IF ~passed THEN <<>>
                              ELSE IF last THEN d.sent[v] ELSE e.sent[v])]
        /\ roundSenders' = IF outcome = "ok" THEN Append(roundSenders, u)
                           ELSE roundSenders
        /\ RunAfter(ev, outcome, ~passed)
    /\ UNCHANGED <<registry, participant_streams, alive, room_size, rsa_pubkey,
                   signatures, transfers, connecting, reconnects, drops,
                   distKeys>>
    /\ UNCHANGED <<waiterVars, joinVars, authVars, registryVars, depth, clock>>

\* run() receives SignedOutput: event_signed_output. The chain connector's
\* transfer succeeds or fails; send_transaction(..).unwrap() panics on a
\* failure. The hash is sent in the iteration order of the stream map.
HandleSignedOutput ==
    /\ actor = "running"
    /\ events # <<>>
    /\ Head(events).type = "SignedOutput"
    /\ LET ev == Head(events)
           u == ev.utxo_id
           passed == pass_outputs_signature_ok(current_round, signatures, u)
           sigs == IF passed THEN signatures \cup {u} ELSE signatures
           complete == passed /\ TransactionIsSent(is_signature_passed(sigs))
       IN
        /\ signatures' = sigs
        /\ \E chain_ok \in BOOLEAN, reached \in SUBSET (participant_streams \cap alive) :
            /\ ~complete => chain_ok /\ reached = {}
            /\ complete /\ ~chain_ok => reached = {}
            /\ complete /\ chain_ok /\ participant_streams \subseteq alive
                   => reached = participant_streams
            /\ transfers' = IF complete
                            THEN Append(transfers, [inputs |-> participants,
                                                    outputs |-> outputs,
                                                    ok |-> chain_ok])
                            ELSE transfers
            /\ received' = [v \in UtxoIds |->
                              received[v]
                              \o (IF v \in reached THEN <<ShuffleTxHash>> ELSE <<>>)]
            /\ RunAfter(ev, event_signed_output(passed, complete, chain_ok,
                                                participant_streams \subseteq alive),
                        ~passed)
    /\ UNCHANGED <<registry, participant_streams, alive, room_size, rsa_pubkey,
                   current_round, outputs, connecting, reconnects, drops,
                   roundSenders, distKeys>>
    /\ UNCHANGED <<waiterVars, joinVars, authVars, registryVars, depth, clock>>

TimerInit ==
    /\ clock = 0
    /\ deadline = NoDeadline

RoomInit ==
    /\ registry = FALSE
    /\ actor = "none"
    /\ events = <<>>
    /\ participant_streams = {}
    /\ alive = {}
    /\ room_size = 0
    /\ rsa_pubkey = [u \in UtxoIds |-> NoKey]
    /\ current_round = 0
    /\ outputs = <<>>
    /\ signatures = {}
    /\ transfers = <<>>
    /\ received = [u \in UtxoIds |-> <<>>]
    /\ connecting = {}
    /\ reconnects = 0
    /\ drops = 0
    /\ nHandled = 0
    /\ lastHandled = NoEvent
    /\ roundSenders = <<>>
    /\ distKeys = <<>>

\* ============================================= tokens and the join signature
\* A u64 timestamp: hi is its top bit (2^63), lo the rest.
Timestamp(hi, lo) == [hi |-> hi, lo |-> lo]

\* A signature as sent: bytes that do not decode, or the signature of a
\* signer over a message.
UndecodableSignature == [decodes |-> FALSE, signer |-> "", message |-> <<>>]
SignatureOf(signer, message) ==
    [decodes |-> TRUE, signer |-> signer, message |-> message]

\* Signature::recover: the signer's address when the signature was made over
\* this message, some other address when not.
recover(signature, message) ==
    IF signature.message = message THEN signature.signer ELSE "unrelated"

\* verify_join_signature, the server clock showing t. The message is
\* utxo_id || timestamp; Signature::decode comes first; UNIX_EPOCH +
\* Duration::from_secs(timestamp) panics when the sum overflows SystemTime's
\* signed 64-bit seconds; then the timestamp and the signer are checked.
verify_join_signature(utxo_id, timestamp, signature, owner, t) ==
    IF ~signature.decodes THEN "InvalidSignature"
    ELSE IF timestamp.hi = 1 THEN "panic"
    ELSE IF timestamp.lo > t THEN "InvalidTimestamp"
    ELSE IF recover(signature, <<utxo_id, timestamp>>) # owner
         THEN "InvalidSignature"
    ELSE "Ok"

\* Contract::get_utxo_by_id.
NoUtxo == [found |-> FALSE, id |-> 0, owner |-> "", token |-> "", amount |-> 0]
get_utxo_by_id(u) ==
    IF u = ClientUtxo
    THEN [found |-> TRUE, id |-> u, owner |-> Owner, token |-> "erc20",
          amount |-> 100]
    ELSE NoUtxo

\* Storage::push_to_queue run alone: get_queue, then update_queue or
\* insert_queue.
push_to_queue(db, u) ==
    IF get_queue(db).exists
    THEN update_queue(db, Append(get_queue(db).participants, u))
    ELSE insert_queue(db, <<u>>)

\* The last call: what was sent, when, and what came back.
Rpc(endpoint, u, h, signature, timestamp, verdict, status, token) ==
    [endpoint |-> endpoint, utxo_id |-> u, header |-> h,
     signature |-> signature, timestamp |-> timestamp, at |-> now,
     verdict |-> verdict, status |-> status, token |-> token]
NoRpc ==
    [endpoint |-> "none", utxo_id |-> 0, header |-> NoHeader,
     signature |-> UndecodableSignature, timestamp |-> Timestamp(0, 0),
     at |-> 0, verdict |-> "", status |-> "", token |-> NoJwt]

\* The clock advances: by a second, or to the end of the leeway of a token
\* issued just before, or a second past it.
TickSizes == {1, TokenLifetime + Leeway, TokenLifetime + Leeway + 1}
Tick(d) ==
    /\ ticks < MaxTicks
    /\ now' = now + d
    /\ ticks' = ticks + 1
    /\ UNCHANGED <<shuffle_token, room_token, participant_rows, lastRpc>>
    /\ UNCHANGED <<waiterVars, joinVars, roomVars, registryVars, depth, timerVars>>

\* What a caller can put into the authorization header: nothing, or a token
\* the client holds or a copy of it signed with another secret, with the
\* Bearer prefix or without.
Tokens ==
    LET held == {shuffle_token, room_token} \ {NoJwt} IN
    held \cup {jsonwebtoken_encode(j.claims, ForeignSecret) : j \in held}
Headers == {NoHeader} \cup {Header(p, j) : p \in {"Bearer ", ""}, j \in Tokens}

\* What a caller can send to JoinShuffleRoom as timestamp and signature.
\* For an id the contract does not know neither is looked at.
JoinTimestamps(u) ==
    IF u = UnknownUtxo THEN {Timestamp(0, now)}
    ELSE {Timestamp(0, 0), Timestamp(0, now), Timestamp(0, now + 1),
          Timestamp(1, 0)}
JoinSignatures(u, timestamp) ==
    IF u = UnknownUtxo THEN {UndecodableSignature}
    ELSE {UndecodableSignature}
         \cup {SignatureOf(s, <<u, m>>) :
                 s \in {Owner, Mallory}, m \in {timestamp, Timestamp(0, 0)}}

\* Service::join_shuffle_room, one call running alone: get_utxo_by_id,
\* verify_join_signature, add_participant (the queue and, in the core, the
\* participant's row), queue_len, create_rooms, generate_shuffle_token.
\* Nothing on the way looks for the id among the queued ids or the
\* participants.
JoinShuffleRoomRpc(u, timestamp, signature) ==
    /\ signature \in JoinSignatures(u, timestamp)
    /\ LET utxo == get_utxo_by_id(u)
           verdict == IF utxo.found
                      THEN verify_join_signature(utxo.id, timestamp, signature,
                                                 utxo.owner, now)
                      ELSE ""
           status == IF ~utxo.found THEN "InvalidArgument"
                     ELSE IF verdict = "panic" THEN "panic"
                     ELSE IF verdict # "Ok" THEN "InvalidArgument"
                     ELSE "Ok"
           queued == push_to_queue(dbQueue, u)
           formed == IF queue_len(queued) >= MIN_ROOM_SIZE
                     THEN create_rooms(queued)
                     ELSE [db |-> queued, rooms |-> <<>>]
           token == generate_shuffle_token(utxo.token, utxo.amount, utxo.id, now)
       IN
        /\ status = "Ok" =>
            queue_len(dbQueue) + MIN_ROOM_SIZE * Len(rooms) < MaxJoins
        /\ IF status = "Ok"
           THEN /\ dbQueue' = formed.db
                /\ rooms' = rooms \o formed.rooms
                /\ participant_rows' = participant_rows \cup {u}
                /\ shuffle_token' = token
                /\ lastRpc' = Rpc("JoinShuffleRoom", u, NoHeader, signature,
                                  timestamp, verdict, status, token)
           ELSE /\ UNCHANGED <<dbQueue, rooms, participant_rows, shuffle_token>>
                /\ lastRpc' = Rpc("JoinShuffleRoom", u, NoHeader, signature,
                                  timestamp, verdict, status, NoJwt)
        /\ UNCHANGED <<now, ticks, room_token>>
        /\ UNCHANGED <<jpc, jrow, jlen, joinOrder>>
        /\ UNCHANGED <<waiterVars, roomVars, registryVars, depth, timerVars>>

\* Service::is_ready_for_shuffle: decode_shuffle_token, get_participant,
\* generate_shuffle_token from the claims decoded.
IsReadyForShuffleRpc(h) ==
    /\ h \in Headers
    /\ LET r == decode_shuffle_token(h, now)
           status == IF ~r.ok THEN "Unauthenticated"
                     ELSE IF r.claims.utxo_id \notin participant_rows
                          THEN "Unauthenticated"
                     ELSE "Ok"
           token == generate_shuffle_token(r.claims.token, r.claims.amount,
                                           r.claims.utxo_id, now)
       IN
        /\ IF status = "Ok"
           THEN /\ shuffle_token' = token
                /\ lastRpc' = Rpc("IsReadyForShuffle", 0, h, UndecodableSignature,
                                  Timestamp(0, 0), "", status, token)
           ELSE /\ UNCHANGED shuffle_token
                /\ lastRpc' = Rpc("IsReadyForShuffle", 0, h, UndecodableSignature,
                                  Timestamp(0, 0), "", status, NoJwt)
        /\ UNCHANGED <<now, ticks, room_token, participant_rows>>
        /\ UNCHANGED <<waiterVars, joinVars, roomVars, registryVars, depth, timerVars>>

\* distribute_public_keys: generate_room_token(room_id, utxo_id) for a
\* participant, sent to it in ShuffleInfo.
DistributeRoomToken ==
    /\ ClientUtxo \in participant_rows
    /\ room_token' = generate_room_token(RoomId, ClientUtxo, now)
    /\ UNCHANGED <<now, ticks, shuffle_token, participant_rows, lastRpc>>
    /\ UNCHANGED <<waiterVars, joinVars, roomVars, registryVars, depth, timerVars>>

\* What a room endpoint does after decode_room_token: Unauthenticated on a
\* token refused; else get_room_stream and the event sent to the room.
RoomCall(endpoint, h, r, event) ==
    /\ IF ~r.ok
       THEN /\ UNCHANGED <<registry, actor, events>>
            /\ lastRpc' = Rpc(endpoint, 0, h, UndecodableSignature,
                              Timestamp(0, 0), "", "Unauthenticated", NoJwt)
       ELSE /\ get_room_stream = "running"
            /\ ChannelHasRoom
            /\ registry' = TRUE
            /\ actor' = "running"
            /\ events' = Append(events, event)
            /\ lastRpc' = Rpc(endpoint, 0, h, UndecodableSignature,
                              Timestamp(0, 0), "", "Ok", NoJwt)
    /\ UNCHANGED <<now, ticks, shuffle_token, room_token, participant_rows>>
    /\ UNCHANGED <<participant_streams, alive, room_size, rsa_pubkey,
                   current_round, outputs, signatures, transfers, received,
                   connecting, reconnects, drops, nHandled, lastHandled,
                   roundSenders, distKeys>>
    /\ UNCHANGED <<waiterVars, joinVars, registryVars, depth, timerVars>>

\* Service::shuffle_round, called with any header.
ShuffleRoundCall(h) ==
    /\ h \in Headers
    /\ LET r == decode_room_token(h, now) IN
       RoomCall("ShuffleRound", h, r,
                ShuffleRound(r.claims.utxo_id, OutputsOf(r.claims.utxo_id)))

\* Service::sign_shuffle_tx, called with any header.
SignShuffleTxCall(h) ==
    /\ h \in Headers
    /\ LET r == decode_room_token(h, now) IN
       RoomCall("SignShuffleTx", h, r, SignedOutput(r.claims.utxo_id))

AuthInit ==
    /\ now = 0
    /\ ticks = 0
    /\ shuffle_token = NoJwt
    /\ room_token = NoJwt
    /\ participant_rows = {}
    /\ lastRpc = NoRpc

\* ========================================================= room registry
\* Room ids that tokens and participants rows can name.
RoomIds == {"room_a", "room_b"}
Calls == 1..NumCalls

\* The client's participants row: none, or Participant.room_id (None or an
\* id).
NoRow == "absent"
NoRoom == "None"

\* Option<StreamSender<RoomEvents>>: None, or the number of a channel.
NoChannel == 0

RoomEndpoints == {"ConnectShuffleRoom", "ShuffleRound", "SignShuffleTx"}
Endpoints == {"IsReadyForShuffle"} \cup RoomEndpoints

\* The RoomEvents variant an endpoint sends.
EventOf(endpoint) ==
    IF endpoint = "ConnectShuffleRoom" THEN "AddParticipant"
    ELSE IF endpoint = "ShuffleRound" THEN "ShuffleRound"
    ELSE "SignedOutput"

NoCall ==
    [pc |-> "idle", endpoint |-> "none", room_id |-> NoRoom,
     sender |-> NoChannel, status |-> ""]

\* An endpoint up to its call of get_room_stream, the token of the request
\* decoded Ok. is_ready_for_shuffle: get_participant, an Err answered
\* Unauthenticated. connect_shuffle_room: get_participant, an Err answered
\* Internal, then room_id.ok_or_else(not_found). shuffle_round and
\* sign_shuffle_tx: the room id of the claims, r.
Lookup(endpoint, row, r) ==
    IF endpoint = "IsReadyForShuffle"
    THEN [pc |-> "done", endpoint |-> endpoint, room_id |-> NoRoom,
          sender |-> NoChannel,
          status |-> IF row = NoRow THEN "Unauthenticated" ELSE "Ok"]
    ELSE IF endpoint = "ConnectShuffleRoom" /\ row = NoRow
    THEN [pc |-> "done", endpoint |-> endpoint, room_id |-> NoRoom,
          sender |-> NoChannel, status |-> "Internal"]
    ELSE IF endpoint = "ConnectShuffleRoom" /\ row = NoRoom
    THEN [pc |-> "done", endpoint |-> endpoint, room_id |-> NoRoom,
          sender |-> NoChannel, status |-> "NotFound"]
    ELSE [pc |-> "lock", endpoint |-> endpoint,
          room_id |-> IF endpoint = "ConnectShuffleRoom" THEN row ELSE r,
          sender |-> NoChannel, status |-> ""]

\* A call of an endpoint starts, with a valid token; r is the room id of a
\* RoomAccess token's claims.
RpcStart(c, endpoint, r) ==
    /\ call[c].pc = "idle"
    /\ call' = [call EXCEPT ![c] = Lookup(endpoint, storage_participant, r)]
    /\ UNCHANGED <<storage_rooms, storage_participant, rooms_lock,
                   service_rooms, spawned, sent>>
    /\ UNCHANGED <<waiterVars, joinVars, roomVars, authVars, depth, timerVars>>

\* get_room_stream: let mut rooms_lock = self.rooms.lock().await.
GetRoomStreamLock(c) ==
    /\ call[c].pc = "lock"
    /\ rooms_lock = 0
    /\ rooms_lock' = c
    /\ call' = [call EXCEPT ![c].pc = "locked"]
    /\ UNCHANGED <<storage_rooms, storage_participant, service_rooms, spawned,
                   sent>>
    /\ UNCHANGED <<waiterVars, joinVars, roomVars, authVars, depth, timerVars>>

\* get_room_stream taking every entry for vacant.
Vacant_always(map, room_id) == TRUE

\* get_room_stream: if let Vacant(e) = rooms_lock.entry(room_id).
Vacant(map, room_id) == map[room_id] = NoChannel

\* get_room_stream under the lock: a vacant entry gets a new channel, an
\* actor spawned on its receiver and its sender inserted; an occupied one is
\* cloned. The storage is not asked for the room.
get_room_stream_entry(map, actors, room_id) ==
    IF Vacant(map, room_id)
    THEN LET channel == Len(actors) + 1 IN
         [rooms |-> [map EXCEPT ![room_id] = channel],
          spawned |-> Append(actors, [room_id |-> room_id, channel |-> channel,
                                      running |-> TRUE]),
          sender |-> channel]
    ELSE [rooms |-> map, spawned |-> actors, sender |-> map[room_id]]

\* get_room_stream from the lock taken to the return, which drops the guard.
GetRoomStreamBody(c) ==
    /\ call[c].pc = "locked"
    /\ rooms_lock = c
    /\ LET e == get_room_stream_entry(service_rooms, spawned, call[c].room_id) IN
        /\ service_rooms' = e.rooms
        /\ spawned' = e.spawned
        /\ call' = [call EXCEPT ![c].pc = "send", ![c].sender = e.sender]
    /\ rooms_lock' = 0
    /\ UNCHANGED <<storage_rooms, storage_participant, sent>>
    /\ UNCHANGED <<waiterVars, joinVars, roomVars, authVars, depth, timerVars>>

\* A send that takes the event whether or not a receiver is left.
room_stream_send_kept(actors, s) == TRUE

\* room_stream.send(event).await: Ok while the receiver of the channel
\* lives, an Err at once when it has been dropped. The receiver is owned by
\* the RoomConnection, which the spawned task drops when run() returns.
room_stream_send(actors, s) == actors[s].running

\* The endpoint after get_room_stream: None is answered Internal; else the
\* event is sent (the key of a ConnectShuffleRoom being well-formed), a
\* failed send, the receiver gone with its actor, answered Internal. The
\* channel of capacity 10 is never full of NumCalls events.
RpcSend(c) ==
    /\ call[c].pc = "send"
    /\ LET s == call[c].sender
           ok == s # NoChannel /\ room_stream_send(spawned, s)
       IN
        /\ call' = [call EXCEPT ![c].pc = "done",
                                ![c].status = IF ok THEN "Ok" ELSE "Internal"]
        /\ sent' = IF ok
                   THEN Append(sent, [channel |-> s,
                                      type |-> EventOf(call[c].endpoint)])
                   ELSE sent
    /\ UNCHANGED <<storage_rooms, storage_participant, rooms_lock,
                   service_rooms, spawned>>
    /\ UNCHANGED <<waiterVars, joinVars, roomVars, authVars, depth, timerVars>>

\* run() of a spawned actor returns (the deadline, or a handler's error):
\* its receiver is dropped; the entry of Service.rooms stays.
ActorReturns(i) ==
    /\ i \in 1..Len(spawned)
    /\ spawned[i].running
    /\ spawned' = [spawned EXCEPT ![i].running = FALSE]
    /\ UNCHANGED <<storage_rooms, storage_participant, rooms_lock,
                   service_rooms, sent, call>>
    /\ UNCHANGED <<waiterVars, joinVars, roomVars, authVars, depth, timerVars>>

\* Service::new: rooms: Arc::new(Mutex::new(HashMap::new())).
RegistryStart ==
    /\ rooms_lock = 0
    /\ service_rooms = [r \in RoomIds |-> NoChannel]
    /\ spawned = <<>>
    /\ sent = <<>>
    /\ call = [c \in Calls |-> NoCall]

\* The database as the service finds it: any of the rooms may have a row;
\* the client's participants row may be missing, and names a room that has
\* a row when it names one. Tokens are self-contained, valid for a day, and
\* the service deletes no row.
StorageStates ==
    {[rooms |-> rs, participant |-> p] :
        rs \in SUBSET RoomIds, p \in {NoRow, NoRoom} \cup RoomIds}
RegistryInit(st) ==
    /\ storage_rooms = st.rooms
    /\ storage_participant = st.participant
    /\ RegistryStart

\* ========================================================= specifications
Init ==
    /\ WaiterInit /\ JoinInit /\ RoomInit /\ AuthInit /\ TimerInit
    /\ RegistryInit([rooms |-> {}, participant |-> NoRow])
    /\ depth = MaxInFlight

NextWaiter ==
    \/ \E c \in Callers : WaiterPush(c)
    \/ \E c \in Callers : WaiterIsFilled(c)
    \/ \E c \in Callers : WaiterPop(c)

NextJoin ==
    \/ \E j \in Joiners : JoinStart(j)
    \/ \E j \in Joiners : PushToQueueRead(j)
    \/ \E j \in Joiners : PushToQueueWrite(j)
    \/ \E j \in Joiners : PushToQueueConflict(j)
    \/ \E j \in Joiners : JoinQueueLen(j)
    \/ \E j \in Joiners : JoinCreateRooms(j)
    \/ \E j \in Joiners : JoinRespond(j)

Next ==
    \/ \E u \in UtxoIds : ConnectShuffleRoom(u)
    \/ \E u \in UtxoIds : ConnectInvalidKey(u)
    \/ \E u \in UtxoIds : ShuffleRoundRpc(u)
    \/ \E u \in UtxoIds : SignShuffleTxRpc(u)
    \/ \E u \in UtxoIds : DropReceiver(u)
    \/ DeadlineTick
    \/ HandleAddParticipant
    \/ HandleShuffleRound
    \/ HandleSignedOutput

\* One client; its JoinShuffleRoom succeeds once here (SpecRejoin has the
\* repeated joins).
NextAuth ==
    \/ \E d \in TickSizes : Tick(d)
    \/ \E u \in {ClientUtxo, UnknownUtxo} :
         \E timestamp \in JoinTimestamps(u) :
           \E signature \in JoinSignatures(u, timestamp) :
             /\ JoinShuffleRoomRpc(u, timestamp, signature)
             /\ lastRpc'.status = "Ok" => u \notin participant_rows
    \/ \E h \in Headers : IsReadyForShuffleRpc(h)
    \/ DistributeRoomToken
    \/ \E h \in Headers : ShuffleRoundCall(h)
    \/ \E h \in Headers : SignShuffleTxCall(h)

SpecWaiter == Init /\ [][NextWaiter]_vars
SpecJoin == Init /\ [][NextJoin]_vars
Spec == Init /\ [][Next]_vars
SpecAuth == Init /\ [][NextAuth]_vars

\* JoinShuffleRoom called again and again, the clock advancing.
NextRejoin ==
    \/ \E d \in TickSizes : Tick(d)
    \/ \E u \in {ClientUtxo, UnknownUtxo} :
         \E timestamp \in JoinTimestamps(u) :
           \E signature \in JoinSignatures(u, timestamp) :
             JoinShuffleRoomRpc(u, timestamp, signature)

SpecRejoin == Init /\ [][NextRejoin]_vars

\* Endpoint calls over the registry, the database holding any of the rows.
InitRegistry ==
    /\ WaiterInit /\ JoinInit /\ RoomInit /\ AuthInit /\ TimerInit
    /\ \E st \in StorageStates :
        /\ st.participant \in RoomIds => st.participant \in st.rooms
        /\ RegistryInit(st)
    /\ depth = MaxInFlight

NextRegistry ==
    \/ \E c \in Calls, endpoint \in Endpoints, r \in RoomIds :
         RpcStart(c, endpoint, r)
    \/ \E c \in Calls : GetRoomStreamLock(c)
    \/ \E c \in Calls : GetRoomStreamBody(c)
    \/ \E c \in Calls : RpcSend(c)
    \/ \E i \in 1..NumCalls : ActorReturns(i)

SpecRegistry == InitRegistry /\ [][NextRegistry]_vars

\* One room whose callers let a further event wait in the channel, every
\* receiver kept and the deadline far.
InitMailbox ==
    /\ WaiterInit /\ JoinInit /\ RoomInit /\ AuthInit /\ TimerInit
    /\ RegistryInit([rooms |-> {}, participant |-> NoRow])
    /\ depth = MaxInFlight + 1

NextMailbox ==
    \/ \E u \in UtxoIds : ConnectShuffleRoom(u)
    \/ \E u \in UtxoIds : ShuffleRoundRpc(u)
    \/ \E u \in UtxoIds : SignShuffleTxRpc(u)
    \/ HandleAddParticipant
    \/ HandleShuffleRound
    \/ HandleSignedOutput

SpecMailbox == InitMailbox /\ [][NextMailbox]_vars

\* The clock of tokio::time moves on.
Advance ==
    /\ clock < MaxClock
    /\ clock' = clock + 1
    /\ UNCHANGED <<waiterVars, joinVars, roomVars, authVars, registryVars,
                   depth, deadline>>

\* Interval::tick() completes once the instant of the next tick is reached.
DeadlineElapses ==
    /\ clock >= deadline
    /\ DeadlineTick

\* One room under the clock: its callers, its actor and its deadline.
NextDeadline ==
    \/ Advance
    \/ \E u \in UtxoIds : ConnectShuffleRoom(u)
    \/ \E u \in UtxoIds : ShuffleRoundRpc(u)
    \/ \E u \in UtxoIds : SignShuffleTxRpc(u)
    \/ DeadlineElapses
    \/ HandleAddParticipant
    \/ HandleShuffleRound
    \/ HandleSignedOutput

SpecDeadline == Init /\ [][NextDeadline]_vars

\* JoinShuffleRoom calls over the queue store, pop_from_queue taken await
\* by await. The calls find the store empty, or holding the ids of
\* MIN_ROOM_SIZE - 1 calls that have returned; the utxo ids of the calls
\* under way follow those.
QueueJoiners == 1..(MIN_ROOM_SIZE - 1 + NumPushers)

InitQueue ==
    /\ WaiterInit /\ RoomInit /\ AuthInit /\ TimerInit
    /\ RegistryInit([rooms |-> {}, participant |-> NoRow])
    /\ depth = MaxInFlight
    /\ \E k \in {0, MIN_ROOM_SIZE - 1} :
        /\ dbQueue = IF k = 0 THEN AbsentRow ELSE Row([i \in 1..k |-> i])
        /\ joinOrder = [i \in 1..k |-> i]
        /\ jpc = [j \in QueueJoiners |->
                    IF j <= k THEN "done"
                    ELSE IF j <= k + NumPushers THEN "start" ELSE "none"]
    /\ jrow = [j \in QueueJoiners |-> AbsentRow]
    /\ jlen = [j \in QueueJoiners |-> 0]
    /\ rooms = <<>>

NextQueue ==
    \/ \E j \in QueueJoiners : JoinStart(j)
    \/ \E j \in QueueJoiners : PushToQueueRead(j)
    \/ \E j \in QueueJoiners : PushToQueueWrite(j)
    \/ \E j \in QueueJoiners : PushToQueueConflict(j)
    \/ \E j \in QueueJoiners : JoinQueueLen(j)
    \/ \E j \in QueueJoiners : PopFromQueueRead(j)
    \/ \E j \in QueueJoiners : PopFromQueueWrite(j)
    \/ \E j \in QueueJoiners : JoinRespond(j)

SpecQueue == InitQueue /\ [][NextQueue]_vars

\* ================================================================= claims
AllDone == \A c \in Callers : wpc[c] = "done"

\* C1: for all interleavings of add_participant calls on one key, the i-th
\* batch returned is the i-th run of min_participants ids in insertion
\* order (so no batch is empty and no id is in two batches), and once all
\* calls have returned, one call in every min_participants got a batch.
C1_QueueAtomicity ==
    /\ \A i \in 1..Len(batches) :
        batches[i] = SubSeq(pushed, (i - 1) * min_participants + 1,
                            i * min_participants)
    /\ AllDone =>
        Cardinality({c \in Callers : wres[c].some}) = NumCallers \div min_participants

\* C2: a call of add_participant returns Some(batch) iff its own append
\* brought the queue to min_participants ids, and the batch then has exactly
\* min_participants ids, the appended id last.
C2_AddParticipantContract ==
    \A c \in Callers :
        wpc[c] = "done" =>
            /\ wres[c].some <=> (wsize[c] = min_participants)
            /\ wres[c].some =>
                /\ Len(wres[c].batch) = min_participants
                /\ wres[c].batch[min_participants] = c

JoinedOk == {j \in Joiners : jpc[j] = "done"}

\* C3: once exactly MIN_ROOM_SIZE JoinShuffleRoom calls have returned Ok
\* (no other call being under way), exactly one room exists and its
\* participants are those ids in join order.
C3_RoomFormation ==
    (/\ Cardinality(JoinedOk) = MIN_ROOM_SIZE
     /\ \A j \in Joiners \ JoinedOk : jpc[j] \in {"start", "failed"})
    => rooms = <<joinOrder>>

\* C4: once AddParticipant events of all RoomSize participants have been
\* handled without error, every participant has been sent ShuffleInfo and
\* participants[0] has been sent EncodedOutputs with an empty list.
C4_KeysSentOnceAllConnected ==
    (participant_streams = UtxoIds /\ room_size = RoomSize)
    => /\ \A u \in UtxoIds : Got(u, "ShuffleInfo")
       /\ \E i \in 1..Len(received[participants[1]]) :
            received[participants[1]][i] = EncodedOutputs(<<>>)

\* C5: the public_keys_list of a ShuffleInfo sent to participants[i] holds
\* the keys of the participants after it, last participant first; the last
\* participant's list is empty.
C5_KeyDistributionOrder ==
    \A i \in 1..RoomSize :
        \A m \in 1..Len(received[participants[i]]) :
            LET msg == received[participants[i]][m] IN
            msg.type = "ShuffleInfo" =>
                /\ distKeys # <<>>
                /\ Len(msg.public_keys_list) = RoomSize - i
                /\ \A j \in 1..(RoomSize - i) :
                    msg.public_keys_list[j] = distKeys[1][participants[RoomSize + 1 - j]]

\* C5's case: the first participant has been sent a list of several keys,
\* not all the same.
C5_Witness ==
    \E m \in 1..Len(received[participants[1]]) :
        LET msg == received[participants[1]][m] IN
        /\ msg.type = "ShuffleInfo"
        /\ Len(msg.public_keys_list) >= 2
        /\ msg.public_keys_list[1] # msg.public_keys_list[2]

\* C6: the ShuffleRound events handled without error come from
\* participants[0], participants[1], ... in that order; the round counter
\* is the number of them while the actor runs, and never exceeds RoomSize.
C6_TurnDiscipline ==
    /\ Len(roundSenders) <= RoomSize
    /\ roundSenders = SubSeq(participants, 1, Len(roundSenders))
    /\ current_round <= RoomSize
    /\ actor = "running" => current_round = Len(roundSenders)

\* C6's case: every participant's ShuffleRound has been accepted.
C6_Witness == roundSenders = participants /\ current_round = RoomSize

\* C7: a ShuffleRound from a participant whose turn it is not ends the
\* room: the actor has exited, every connected participant has been sent an
\* Error event and the registry holds no entry for the room.
C7_WrongTurnAborts ==
    (lastHandled.type = "ShuffleRound" /\ lastHandled.refused)
    => /\ actor # "running"
       /\ \A u \in participant_streams : Got(u, "Error")
       /\ ~registry

\* C8: transfer has been called iff every participant's signature is
\* recorded.
C8_TransferIffAllSigned ==
    (transfers # <<>>) <=> (signatures = UtxoIds)

\* C8's case: the last signature came in and transfer was called.
C8_Witness == Len(transfers) = 1 /\ signatures = UtxoIds

Signing == current_round = RoomSize /\ transfers = <<>>

\* C9: a SignedOutput event is handled without error only in the Signing
\* state and from a utxo id that has not signed; one handled before the last
\* round, or a second one of a utxo id, is refused and records nothing.
C9_SignedOutputOnlyWhileSigning ==
    [][(nHandled' = nHandled + 1 /\ lastHandled'.type = "SignedOutput") =>
        LET u == lastHandled'.utxo_id IN
        /\ lastHandled'.ok =>
            /\ Signing
            /\ u \notin signatures
            /\ signatures' = signatures \cup {u}
        /\ (~Signing \/ u \in signatures) =>
            /\ ~lastHandled'.ok
            /\ signatures' = signatures
            /\ transfers' = transfers]_vars

\* C9's case: a second SignedOutput of a utxo id has been refused.
C9_Witness ==
    /\ lastHandled.type = "SignedOutput"
    /\ lastHandled.refused
    /\ lastHandled.utxo_id \in signatures

TxHashBroadcast ==
    /\ transfers # <<>>
    /\ transfers[1].ok
    /\ \A u \in UtxoIds : Got(u, "ShuffleTxHash")

\* C10: once the last signature is in, transfer has succeeded and
\* ShuffleTxHash has been sent to every participant, the actor handles no
\* further event.
C10_NoEventAfterTxHash ==
    [][TxHashBroadcast => nHandled' = nHandled]_vars

TransferFailed == transfers # <<>> /\ ~transfers[Len(transfers)].ok

\* C11: when transfer fails as the last signature arrives, the room ends:
\* the actor has exited, every participant has been sent an Error event and
\* none has been sent ShuffleTxHash.
C11_TransferFailureAborts ==
    TransferFailed
    => /\ actor # "running"
       /\ \A u \in participant_streams :
            Got(u, "Error") /\ ~Got(u, "ShuffleTxHash")

\* C12: a room ended by its deadline has sent an Error event to every
\* connected participant stream, and a lookup of its id in the registry no
\* longer reaches it (also when no participant has connected).
C12_DeadlineAborts ==
    actor = "deadline"
    => /\ \A u \in participant_streams \cap alive : Got(u, "Error")
       /\ ~registry

\* C13: once a handler has returned a failure the actor has exited and every
\* stream still connected has been sent an Error event.
C13_HandlerFailureAborts ==
    (lastHandled.type # "none" /\ ~lastHandled.ok)
    => /\ actor # "running"
       /\ \A u \in participant_streams \cap alive : Got(u, "Error")

Exited == actor \in {"deadline", "error", "panic"}

\* C14: in every state where the room's actor has exited, the registry holds
\* no sender for the room.
C14_RegistryRemovedOnExit == Exited => ~registry

\* The happy path so far: every participant has connected, once; no stream
\* was dropped, and neither a failure nor the deadline has ended the actor.
HappyPath ==
    /\ connecting = UtxoIds
    /\ reconnects = 0
    /\ drops = 0
    /\ actor = "running"

\* The participant whose step the protocol waits for can take it: the one
\* whose round it is holds a room token, or one that has not signed does.
CanStep ==
    \/ /\ current_round < RoomSize
       /\ HasRoomToken(participants[current_round + 1])
    \/ /\ current_round = RoomSize
       /\ \E u \in UtxoIds \ signatures : HasRoomToken(u)

\* C15: on the happy path the room never comes to rest before the hash is
\* broadcast (with every event handled, either ShuffleTxHash has reached
\* every participant or the next participant can take its step), and every
\* transfer called has the room's participants in join order as inputs and
\* the last participant's list as outputs.
C15_HappyPath ==
    /\ (HappyPath /\ events = <<>>) => (TxHashBroadcast \/ CanStep)
    /\ \A i \in 1..Len(transfers) :
        /\ transfers[i].inputs = participants
        /\ transfers[i].outputs = OutputsOf(participants[RoomSize])

TokenEndpoints == {"IsReadyForShuffle", "ShuffleRound", "SignShuffleTx"}

\* The kind of token an endpoint requires, and the kind a token is of.
RequiredKind(endpoint) ==
    IF endpoint = "IsReadyForShuffle" THEN "ShuffleAccess" ELSE "RoomAccess"
KindOf(jwt) ==
    IF DOMAIN jwt.claims = ShuffleAccessClaimFields THEN "ShuffleAccess"
    ELSE IF DOMAIN jwt.claims = RoomAccessClaimFields THEN "RoomAccess"
    ELSE "none"

\* C16: an endpoint accepts the token of a request (answers something other
\* than Unauthenticated) iff the authorization header is there with the
\* Bearer prefix and the token is signed with the server's secret, of the
\* kind the endpoint requires, and its exp has not passed.
C16_TokenValidation ==
    lastRpc.endpoint \in TokenEndpoints =>
        LET h == lastRpc.header IN
        (lastRpc.status # "Unauthenticated") <=>
            /\ h.present
            /\ h.prefix = "Bearer "
            /\ h.jwt.mac = ServerSecret
            /\ KindOf(h.jwt) = RequiredKind(lastRpc.endpoint)
            /\ h.jwt.claims.exp >= lastRpc.at

\* A token of the other kind than the endpoint of the last call requires,
\* signed by the server, not expired, in a well-formed header.
WrongKindOnly ==
    /\ lastRpc.endpoint \in TokenEndpoints
    /\ lastRpc.header.present
    /\ lastRpc.header.prefix = "Bearer "
    /\ lastRpc.header.jwt.mac = ServerSecret
    /\ lastRpc.header.jwt.claims.exp >= lastRpc.at
    /\ KindOf(lastRpc.header.jwt) # RequiredKind(lastRpc.endpoint)

\* C17: a call of ShuffleRound or SignShuffleTx with a ShuffleAccess token,
\* or of IsReadyForShuffle with a RoomAccess token, is answered
\* Unauthenticated and changes nothing: no event is sent to the room, no
\* actor is spawned, no token is issued.
C17_WrongKindRejected ==
    [][WrongKindOnly' =>
        /\ lastRpc'.status = "Unauthenticated"
        /\ lastRpc'.token = NoJwt
        /\ UNCHANGED <<registry, actor, events, shuffle_token>>]_vars

\* C17's case: ShuffleRound was called with a valid ShuffleAccess token.
C17_Witness ==
    /\ WrongKindOnly
    /\ lastRpc.endpoint = "ShuffleRound"
    /\ KindOf(lastRpc.header.jwt) = "ShuffleAccess"

C19_VerifyJoinSignature ==
    (lastRpc.endpoint = "JoinShuffleRoom" /\ lastRpc.utxo_id = ClientUtxo) =>
        LET s == lastRpc.signature
            ts == lastRpc.timestamp
            future == ts.hi = 1 \/ ts.lo > lastRpc.at
            mismatch == recover(s, <<ClientUtxo, ts>>) # Owner
        IN
        /\ ~s.decodes => lastRpc.verdict = "InvalidSignature"
        /\ (s.decodes /\ future) => lastRpc.verdict = "InvalidTimestamp"
        /\ (s.decodes /\ ~future /\ mismatch) =>
                lastRpc.verdict = "InvalidSignature"
        /\ (s.decodes /\ ~future /\ ~mismatch) => lastRpc.verdict = "Ok"

\* The last call was JoinShuffleRoom with a signature that recovers an
\* address other than the utxo's owner.
JoinByOther ==
    /\ lastRpc.endpoint = "JoinShuffleRoom"
    /\ lastRpc.utxo_id = ClientUtxo
    /\ lastRpc.signature.decodes
    /\ recover(lastRpc.signature, <<ClientUtxo, lastRpc.timestamp>>) # Owner

\* C20: a JoinShuffleRoom call whose signature recovers an address other
\* than utxo.owner returns InvalidArgument and changes nothing: nothing is
\* enqueued, no room is created and no token is issued.
C20_BadSignatureJoin ==
    [][JoinByOther' =>
        /\ lastRpc'.status = "InvalidArgument"
        /\ lastRpc'.token = NoJwt
        /\ UNCHANGED <<dbQueue, rooms, participant_rows, shuffle_token>>]_vars

NoDuplicates(s) == \A i, j \in 1..Len(s) : i # j => s[i] # s[j]

\* C21: a utxo id is never twice in the queue nor twice in the participant
\* list of one room, however often JoinShuffleRoom is called for it.
C21_UniqueUtxo ==
    /\ NoDuplicates(dbQueue.participants)
    /\ \A r \in 1..Len(rooms) : NoDuplicates(rooms[r])

\* A call that get_room_stream has returned to, and the actors spawned for
\* a room id.
GotStream(c) == call[c].pc \in {"send", "done"} /\ call[c].room_id \in RoomIds
ActorsOf(r) == {i \in 1..Len(spawned) : spawned[i].room_id = r}

\* C22: for a room id that has no row in storage, get_room_stream returns
\* None, spawns no actor and inserts no entry into the registry.
C22_AbsentRoomNotSpawned ==
    \A r \in RoomIds \ storage_rooms :
        /\ service_rooms[r] = NoChannel
        /\ ActorsOf(r) = {}
        /\ \A c \in Calls :
            (GotStream(c) /\ call[c].room_id = r) => call[c].sender = NoChannel

\* C25: a call that has returned is answered NotFound when the participants
\* row of its utxo id is missing (IsReadyForShuffle, ConnectShuffleRoom) and
\* when its room is unknown: the row names no room (ConnectShuffleRoom) or
\* the room id has no row in storage (ShuffleRound, SignShuffleTx,
\* ConnectShuffleRoom).
C25_NotFoundMapping ==
    \A c \in Calls :
        call[c].pc = "done" =>
            /\ (/\ call[c].endpoint \in {"IsReadyForShuffle", "ConnectShuffleRoom"}
                /\ storage_participant = NoRow) => call[c].status = "NotFound"
            /\ (/\ call[c].endpoint = "ConnectShuffleRoom"
                /\ storage_participant = NoRoom) => call[c].status = "NotFound"
            /\ (/\ call[c].endpoint \in RoomEndpoints
                /\ call[c].room_id \in RoomIds \ storage_rooms)
                    => call[c].status = "NotFound"

\* C26: however the calls of get_room_stream interleave, at most one actor
\* (and one channel) is spawned for a room id, exactly one once a call for
\* the id has returned; every call for the id returns the sender of that
\* channel, and calls for different ids return different channels.
C26_OneActorPerRoom ==
    /\ \A r \in RoomIds :
        /\ Cardinality(ActorsOf(r)) <= 1
        /\ \A c \in Calls :
            (GotStream(c) /\ call[c].room_id = r) =>
                /\ Cardinality(ActorsOf(r)) = 1
                /\ \A i \in ActorsOf(r) : call[c].sender = spawned[i].channel
                /\ call[c].sender = service_rooms[r]
    /\ \A c, d \in Calls :
        (GotStream(c) /\ GotStream(d) /\ call[c].room_id # call[d].room_id)
            => call[c].sender # call[d].sender

\* C26's case: two calls for the same room id have both got a sender.
C26_Witness ==
    \E c, d \in Calls :
        /\ c # d
        /\ GotStream(c) /\ GotStream(d)
        /\ call[c].room_id = call[d].room_id
        /\ call[c].sender # NoChannel

\* C23: a ConnectShuffleRoom call refused for its public key (missing, or
\* not an RSA key) changes no room state: no actor is spawned, no entry is
\* inserted into the registry and no event is sent to the room.
C23_InvalidKeyChangesNothing ==
    [][(\E u \in UtxoIds : ConnectInvalidKey(u))
        => UNCHANGED <<registry, actor, events>>]_vars

\* The number of events of a type in a sequence, and of those sent into the
\* streams of a utxo id.
CountIn(s, type) == Cardinality({i \in 1..Len(s) : s[i].type = type})
Count(u, type) == CountIn(received[u], type)

RoundAccepted ==
    /\ nHandled' = nHandled + 1
    /\ Head(events).type = "ShuffleRound"
    /\ ~lastHandled'.refused

\* C28: the handling of an accepted ShuffleRound that brings current_round
\* to r < RoomSize sends one event, EncodedOutputs with the list the sender
\* (participants[r-1]) submitted, unchanged, into the stream of
\* participants[r], and nothing into any other stream; when that send fails
\* nothing is sent at all.
C28_EncodedOutputsToNext ==
    [][(RoundAccepted /\ current_round' < RoomSize) =>
        LET ev == Head(events)
            next == participants[current_round' + 1]
        IN
        /\ ev.utxo_id = participants[current_round']
        /\ \A v \in UtxoIds \ {next} : received'[v] = received[v]
        /\ received'[next] =
            IF lastHandled'.ok
            THEN Append(received[next], EncodedOutputs(ev.outputs))
            ELSE received[next]]_vars

\* C28's case: the second participant's round was accepted and the third
\* was handed the second's outputs.
C28_Witness ==
    /\ lastHandled.type = "ShuffleRound"
    /\ lastHandled.ok
    /\ current_round = 2
    /\ received[participants[3]][Len(received[participants[3]])]
         = EncodedOutputs(OutputsOf(participants[2]))

\* C29: a TxSigningOutputs is sent only by the handling of the accepted
\* ShuffleRound that brings current_round to RoomSize, with the outputs its
\* sender, the last participant, submitted, and no EncodedOutputs is sent in
\* that step; when that handling ends Ok every participant has been sent
\* exactly that event.
C29_TxSigningOutputsAfterLastRound ==
    [][/\ (\E v \in UtxoIds : CountIn(received'[v], "TxSigningOutputs")
                                > CountIn(received[v], "TxSigningOutputs")) =>
            /\ RoundAccepted
            /\ current_round = RoomSize - 1
            /\ current_round' = RoomSize
            /\ Head(events).utxo_id = participants[RoomSize]
            /\ \A v \in UtxoIds :
                \/ received'[v] = received[v]
                \/ received'[v] = Append(received[v],
                                         TxSigningOutputs(Head(events).outputs))
       /\ (RoundAccepted /\ lastHandled'.ok /\ current_round' = RoomSize) =>
            \A v \in UtxoIds :
                received'[v] = Append(received[v],
                                      TxSigningOutputs(Head(events).outputs))
      ]_vars

\* C29's case: the last round is done and every participant holds the last
\* participant's outputs to sign.
C29_Witness ==
    /\ current_round = RoomSize
    /\ \A v \in UtxoIds :
        /\ Count(v, "TxSigningOutputs") = 1
        /\ received[v][Len(received[v])]
             = TxSigningOutputs(OutputsOf(participants[RoomSize]))

\* The state the room's actor owns.
RoomState ==
    <<participant_streams, room_size, rsa_pubkey, current_round, outputs,
      signatures, transfers, received>>

\* C30: a step handles at most one event, the one at the head of the
\* channel, and takes it out of the channel when the handler ends Ok; a step
\* that handles none (a call of an endpoint) leaves the room's state as it
\* is and at most appends one event at the tail of the channel.
C30_FifoSoleWriter ==
    [][/\ nHandled' \in {nHandled, nHandled + 1}
       /\ nHandled' = nHandled + 1 =>
            /\ events # <<>>
            /\ lastHandled'.type = Head(events).type
            /\ lastHandled'.utxo_id = Head(events).utxo_id
            /\ lastHandled'.ok => events' = Tail(events)
       /\ nHandled' = nHandled =>
            /\ UNCHANGED RoomState
            /\ \/ events' = events
               \/ /\ Len(events') = Len(events) + 1
                  /\ SubSeq(events', 1, Len(events)) = events
      ]_vars

\* C30's case: events of two participants wait in the channel while the
\* actor has handled others.
C30_Witness ==
    /\ Len(events) = 2
    /\ events[1].utxo_id # events[2].utxo_id
    /\ nHandled >= 1

\* C31: once a room's actor has exited, a send into the room's channel by
\* ConnectShuffleRoom, ShuffleRound or SignShuffleTx is answered Internal
\* at once and puts no event into the channel, whether the sender was
\* looked up before the exit or after it.
C31_SendAfterExitFails ==
    [][\A c \in Calls :
        (/\ call[c].pc = "send"
         /\ call'[c].pc = "done"
         /\ call[c].sender # NoChannel
         /\ ~spawned[call[c].sender].running)
        => /\ call[c].endpoint \in RoomEndpoints
           /\ call'[c].status = "Internal"
           /\ sent' = sent]_vars

\* C31's case: every call got the sender of a room whose actor exited
\* before any send and was answered Internal; no event is in the channel.
C31_Witness ==
    /\ \A c \in Calls :
        /\ call[c].pc = "done"
        /\ call[c].status = "Internal"
        /\ call[c].sender = 1
    /\ ~spawned[1].running
    /\ sent = <<>>

\* C32: the deadline is set when the actor is constructed, to the instant
\* DEFAULT_ROUND_DEADLINE later, and no step after that moves it, a handled
\* event included; the actor ends by the deadline only once that instant is
\* reached, and from then on the tick can end it in whatever state the room
\* is.
C32_DeadlineBoundsSession ==
    [][/\ (~registry /\ registry')
            => deadline' = clock + DEFAULT_ROUND_DEADLINE
       /\ registry => deadline' = deadline
       /\ (actor = "running" /\ actor' = "deadline") => clock >= deadline
       /\ (actor = "running" /\ clock >= deadline) => ENABLED DeadlineElapses
      ]_vars

\* C32's case: the actor was constructed after the clock had moved, events
\* were handled up to the second round, and the tick ended the actor at the
\* instant set at construction.
C32_Witness ==
    /\ actor = "deadline"
    /\ current_round = 2
    /\ clock = deadline
    /\ deadline = 1 + DEFAULT_ROUND_DEADLINE

\* C33: the token of every ShuffleInfo a participant has been sent is
\* accepted by decode_room_token and its claims name the participant's own
\* utxo id and the id of the room.
C33_RoomTokenIsRecipients ==
    \A u \in UtxoIds :
        \A i \in 1..Len(received[u]) :
            received[u][i].type = "ShuffleInfo" =>
                LET r == decode_room_token(
                             Header("Bearer ", received[u][i].shuffle_access_token),
                             now)
                IN /\ r.ok
                   /\ r.claims.utxo_id = u
                   /\ r.claims.room_id = RoomId

\* C33's case: every participant of the room has been sent its ShuffleInfo.
C33_Witness == \A u \in UtxoIds : Got(u, "ShuffleInfo")

\* C34: a pop_from_queue that returns has taken exactly the first
\* MIN_ROOM_SIZE ids of the queue as stored and left the ids behind them
\* stored in their order (or has taken none and left the queue as it was),
\* so that an id pushed while the pop is under way stays stored and no id
\* stays stored that the pop has returned.
C34_PopIsAtomic ==
    [][\A j \in QueueJoiners :
        (jpc[j] = "pop_write" /\ jpc'[j] # "pop_write") =>
            LET stored == dbQueue.participants IN
            \/ rooms' = rooms /\ dbQueue' = dbQueue
            \/ /\ Len(stored) >= MIN_ROOM_SIZE
               /\ rooms' = Append(rooms, SubSeq(stored, 1, MIN_ROOM_SIZE))
               /\ dbQueue'.participants
                    = SubSeq(stored, MIN_ROOM_SIZE + 1, Len(stored))]_vars

\* C35: the chain connector's transfer is called at most once for the room
\* and no participant is sent ShuffleTxHash twice, whatever SignedOutput
\* events follow the broadcast.
C35_TransferAtMostOnce ==
    /\ Len(transfers) <= 1
    /\ \A u \in UtxoIds : Count(u, "ShuffleTxHash") <= 1

\* C35's case: after the transaction was sent and ShuffleTxHash broadcast,
\* a further SignedOutput has been handled.
C35_Witness ==
    /\ TxHashBroadcast
    /\ lastHandled.type = "SignedOutput"
    /\ lastHandled.refused

PushedOk == {j \in Joiners : jpc[j] \in {"queue_len", "create_rooms", "token", "done"}}
Popped == {j \in Joiners : \E i \in 1..Len(rooms) : j \in Range(rooms[i])}

\* C36: every utxo id whose push_to_queue has returned Ok is in the stored
\* queue unless a pop has taken it, and queue_len is the number of pushes
\* that returned Ok minus the number of ids popped.
C36_NoEnqueueLost ==
    /\ \A j \in PushedOk \ Popped : j \in Range(dbQueue.participants)
    /\ queue_len(dbQueue) = Cardinality(PushedOk) - Cardinality(Popped)

====
